---------------------------- MODULE Spec2Model ----------------------------
(***************************************************************************)
(* Call signalling of ChatApp (src/app.js).                                *)
(*                                                                         *)
(* The application is single threaded.  A handler runs until it reaches an *)
(* await of a platform promise (getUserMedia, play, createOffer, ...); the *)
(* rest of the handler is a continuation that runs in a later task.  Every *)
(* action below is one such run: a UI handler or a message handler from    *)
(* its start to its first await, or a continuation from the settled await  *)
(* to the next one.  ws.onmessage does not wait for the handler of the     *)
(* previous message, so continuations of different handlers interleave.    *)
(*                                                                         *)
(* The negotiation engine (RTCPeerConnection) and the media stream are     *)
(* platform objects.  An engine is modelled by what the claims observe:    *)
(* how often it was closed, how many remote descriptions it accepted and   *)
(* the log of remote candidates it accepted.  An operation on an engine    *)
(* takes effect in the engine's operation chain in call order, so the      *)
(* effect is recorded at the call; whether the operation succeeds is the   *)
(* platform's choice.  A promise of an engine that was closed in the       *)
(* meantime never settles.                                                 *)
(***************************************************************************)
EXTENDS Integers, Sequences, FiniteSets, Bags

(* ------------------------------ bounds --------------------------------- *)
\* calls of startLocalStream (streams acquired or being acquired)
MaxStreams == 2
\* remote candidates that reach a negotiation engine or the queue
MaxCands == 2
\* handlers suspended at the same time
MaxTasks == 2
\* remote descriptions one engine is given
MaxRemote == 2
\* platform operations that fail
MaxFailures == 1

(* ------------------------------ values --------------------------------- *)
NULL == "null"
UNDEF == "undefined"
Me == "me"
Bob == "bob"
Carol == "carol"
CallTypes == {"audio", "video"}

\* rosters carried by join / leave messages
Rosters == {<<Me, Bob>>}

\* an absent offer: this.pendingOffer is undefined after construction and
\* null after answerCall
NoOffer(v) == [type |-> v, from_user |-> v, to_user |-> v, call_type |-> v]

\* inbound call_offer, call_answer and ice_candidate messages
OfferMsgs ==
    [type : {"call_offer"}, from_user : {Bob}, to_user : {Me, Carol},
     call_type : {"audio"}]

AnswerMsgs ==
    [type : {"call_answer"}, from_user : {Bob, Carol}, to_user : {Me},
     accepted : BOOLEAN]

IceMsgs ==
    [type : {"ice_candidate"}, from_user : {Bob}, to_user : {Me, Carol}]

VARIABLES
    currentUsername,          \* this.currentUsername
    isConnected,              \* this.isConnected
    onlineUsers,              \* this.onlineUsers: [defined, list]
    peerConnection,           \* this.peerConnection: 0 (null) or an engine
    localStream,              \* this.localStream: 0 (null) or a stream
    currentPeer,              \* this.currentPeer
    isCaller,                 \* this.isCaller
    pendingRemoteCandidates,  \* this.pendingRemoteCandidates
    remoteDescriptionSet,     \* this.remoteDescriptionSet
    pendingOffer,             \* this.pendingOffer
    engines,                  \* every RTCPeerConnection created so far
    streams,                  \* every MediaStream acquired so far
    tasks,                    \* bag of suspended handlers
    candSeq,                  \* remote candidates taken in so far
    failures,                 \* platform operations that failed so far
    lastEv,                   \* the handler run that produced this state
    scen                      \* phase of the scenario of section 8 being followed

appVars == <<currentUsername, isConnected, onlineUsers, pendingOffer>>
callVars == <<peerConnection, localStream, currentPeer, isCaller,
              pendingRemoteCandidates, remoteDescriptionSet>>
platformVars == <<engines, streams>>
vars == <<currentUsername, isConnected, onlineUsers, peerConnection,
          localStream, currentPeer, isCaller, pendingRemoteCandidates,
          remoteDescriptionSet, pendingOffer, engines, streams, tasks,
          candSeq, failures, lastEv, scen>>

(* ------------------------------ helpers -------------------------------- *)
\* what the run that led to a state was: the handler (op, fn), the await it
\* resumed from (at), how it ended (out), whether the message it handled was
\* addressed to the local user and came from the current peer, the message
\* it passed to ws.send, and whether it ran endCall right after a run that
\* ran endCall (from the End button or from a call_answer that declines)
Ev(op, fn, at, out, m, snd) ==
    [op |-> op, fn |-> fn, at |-> at, out |-> out, toMe |-> m.toMe,
     fromPeer |-> m.fromPeer, snd |-> snd,
     again |-> /\ op = "endCall" \/ out = "ended"
               /\ lastEv.op = "endCall" \/ lastEv.out = "ended"]

NoMsg == [toMe |-> FALSE, fromPeer |-> FALSE]
Info(m) == [toMe |-> m.to_user = Me, fromPeer |-> m.from_user = currentPeer]

NoSent == [type |-> "-", from_user |-> "-", to_user |-> "-",
           call_type |-> "-", accepted |-> FALSE]

\* a suspended handler: the function, the await it is suspended at, the
\* call type and the offer's sender it holds, the engine and the outcome of
\* the operation it awaits, and the array and position of its for-of loop
Task(fn, pc, type, from, eng, ok, arr, idx) ==
    [fn |-> fn, pc |-> pc, type |-> type, from |-> from, eng |-> eng,
     ok |-> ok, arr |-> arr, idx |-> idx]

Live == [live |-> TRUE, items |-> <<>>]
Frozen(items) == [live |-> FALSE, items |-> items]

Without(t) == tasks (-) SetToBag({t})
NTasks == BagCardinality(tasks)
Pending(pc) == {t \in BagToSet(tasks) : t.pc = pc}

\* outcomes the platform may give getUserMedia
MayFail == IF failures < MaxFailures THEN BOOLEAN ELSE {TRUE}

\* outcomes the platform may give setRemoteDescription or addIceCandidate
\* on engine e: they are fed from the network
Outcomes(engs, e) == IF engs[e].closed > 0 THEN {FALSE} ELSE MayFail

\* outcomes the platform may give createOffer, createAnswer or
\* setLocalDescription on engine e: they are fed the engine's own descriptors
OwnOutcomes(engs, e) == {engs[e].closed = 0}

\* handler u is suspended at an await
Await(T, u) ==
    /\ tasks' = T (+) SetToBag({u})
    /\ failures' = IF u.ok THEN failures ELSE failures + 1

(* ----------------------------- scenarios ------------------------------- *)
\* The scenarios of section 8 as an observer: scen follows a scenario while
\* exactly its events happen and is "off" from the first other event on.
ScenStep(s, label) ==
    CASE s = "start" /\ label \in {"joinRoom", "join", "ice_dropped"} -> "start"
      [] s = "start" /\ label = "initiate_video" -> "A_media"
      [] s = "start" /\ label = "offer_me" -> "C_offer"
      [] s = "A_media" /\ label = "resume_ok" -> "A_media"
      [] s = "A_media" /\ label = "offer_sent" -> "A_offer"
      [] s = "A_offer" /\ label \in {"ice", "resume_ok"} -> "A_offer"
      [] s = "A_offer" /\ label = "answer_true" -> "A_answer"
      [] s = "A_offer" /\ label = "answer_false" -> "D_done"
      [] s = "A_answer" /\ label \in {"ice", "resume_ok"} -> "A_answer"
      [] s = "A_answer" /\ label = "answer_done" -> "A_done"
      [] s = "C_offer" /\ label \in {"ice", "ice_dropped"} -> "C_c1"
      [] s = "C_c1" /\ label \in {"ice", "ice_dropped"} -> "C_c2"
      [] s = "C_c2" /\ label = "accept" -> "C_accept"
      [] s = "C_accept" /\ label = "resume_ok" -> "C_accept"
      [] s = "C_accept" /\ label = "accept_done" -> "C_done"
      [] OTHER -> "off"

(* -------------------------------- Init --------------------------------- *)
Init ==
    /\ currentUsername = NULL
    /\ isConnected = FALSE
    /\ onlineUsers = [defined |-> FALSE, list |-> <<>>]
    /\ peerConnection = 0
    /\ localStream = 0
    /\ currentPeer = NULL
    /\ isCaller = FALSE
    /\ pendingRemoteCandidates = <<>>
    /\ remoteDescriptionSet = FALSE
    /\ pendingOffer = NoOffer(UNDEF)
    /\ engines = <<>>
    /\ streams = <<>>
    /\ tasks = EmptyBag
    /\ candSeq = 0
    /\ failures = 0
    /\ lastEv = [op |-> "constructor", fn |-> "-", at |-> "-", out |-> "done",
                 toMe |-> FALSE, fromPeer |-> FALSE, snd |-> NoSent,
                 again |-> FALSE]
    /\ scen = "start"

(* ------------------------- pieces of the code -------------------------- *)
\* this.onlineUsers.find(u => u !== this.currentUsername)
RECURSIVE Find(_)
Find(list) ==
    IF list = <<>> THEN UNDEF
    ELSE IF Head(list) # currentUsername THEN Head(list)
    ELSE Find(Tail(list))

\* data.to_user === this.currentUsername, case "call_offer"
OfferAddressed(m) == m.to_user = currentUsername

\* the guard without its test of this.peerConnection
IceGuardNoEngine(m) == m.to_user = currentUsername

\* data.to_user === this.currentUsername && this.peerConnection,
\* case "ice_candidate"
IceGuard(m) == m.to_user = currentUsername /\ peerConnection # 0

\* a call_offer record that does not carry the type of the call
OfferMessageNoType(type) ==
    [type |-> "call_offer", from_user |-> currentUsername,
     to_user |-> currentPeer, call_type |-> "audio", accepted |-> TRUE]

\* the call_offer record startLocalStream sends
OfferMessage(type) ==
    [type |-> "call_offer", from_user |-> currentUsername,
     to_user |-> currentPeer, call_type |-> type, accepted |-> TRUE]

\* the call_answer record answerCall sends
AnswerMessage(to, accepted) ==
    [type |-> "call_answer", from_user |-> currentUsername, to_user |-> to,
     call_type |-> "-", accepted |-> accepted]

\* an endCall that leaves the tracks running
StopTracksSkipped(strs, ls) == strs

\* this.localStream.getTracks().forEach(t => t.stop()), under its guard
StopTracks(strs, ls) ==
    IF ls # 0 THEN [strs EXCEPT ![ls].stops = @ + 1] ELSE strs

\* an endCall that leaves the engine open
CloseEngineSkipped(engs, pc) == engs

\* this.peerConnection.close(), under its guard: a closed engine has
\* released its descriptions and candidates
CloseEngine(engs, pc) ==
    IF pc # 0
    THEN [engs EXCEPT ![pc] = [closed |-> @.closed + 1, remote |-> 0,
                               log |-> <<>>]]
    ELSE engs

\* engine.setRemoteDescription(...) that succeeds
ApplyRemote(engs, pc) == [engs EXCEPT ![pc].remote = @ + 1]

\* engine.addIceCandidate(c) that succeeds
ApplyCandidate(engs, pc, c, via) ==
    [engs EXCEPT ![pc].log = Append(@, [c |-> c, via |-> via])]

\* promises of a closed engine never settle: the handlers awaiting them
\* are never resumed
Abandon(T, pc) ==
    LET keep == {t \in DOMAIN T : pc = 0 \/ t.eng # pc}
    IN [t \in keep |-> T[t]]

(* --------------------------- room and roster --------------------------- *)
\* the first message the room sends a participant is the join that
\* announces it, with the roster
Announced == isConnected /\ onlineUsers.defined

\* joinRoom with connectWebSocket's onopen
JoinRoom ==
    /\ ~isConnected
    /\ currentUsername' = Me
    /\ isConnected' = TRUE
    /\ lastEv' = Ev("joinRoom", "-", "-", "done", NoMsg, NoSent)
    /\ scen' = ScenStep(scen, "joinRoom")
    /\ UNCHANGED <<onlineUsers, pendingOffer, callVars, platformVars, tasks,
                   candSeq, failures>>

\* handleMessage, case "join" / "leave": updateUsersList.  Somebody joined
\* or left, so the roster differs from the one before.
RecvPresence ==
    /\ isConnected
    /\ \E r \in Rosters :
         /\ onlineUsers' = [defined |-> TRUE, list |-> r]
         /\ onlineUsers' # onlineUsers
    /\ lastEv' = Ev("join", "-", "-", "done", NoMsg, NoSent)
    /\ scen' = ScenStep(scen, "join")
    /\ UNCHANGED <<currentUsername, isConnected, pendingOffer, callVars,
                   platformVars, tasks, candSeq, failures>>

(* ---------------------------- message router --------------------------- *)
\* handleMessage, case "call_offer", with showIncomingCall
RecvCallOffer ==
    /\ Announced
    /\ \E m \in OfferMsgs :
         IF OfferAddressed(m)
         THEN /\ pendingOffer' = m
              /\ lastEv' = Ev("call_offer", "-", "-", "stored", Info(m),
                              NoSent)
              /\ scen' = ScenStep(scen, "offer_me")
         ELSE /\ pendingOffer' = pendingOffer
              /\ lastEv' = Ev("call_offer", "-", "-", "ignored", Info(m),
                              NoSent)
              /\ scen' = ScenStep(scen, "other")
    /\ UNCHANGED <<currentUsername, isConnected, onlineUsers, callVars,
                   platformVars, tasks, candSeq, failures>>

\* remote candidates taken in: one more in a call that follows Scenario A,
\* where a candidate can arrive in the middle of a flush of two
CandCap ==
    IF scen \in {"A_offer", "A_answer"} THEN MaxCands + 1 ELSE MaxCands

\* handleMessage, case "ice_candidate"
RecvIceCandidate ==
    /\ Announced
    /\ \E m \in IceMsgs :
         LET c == candSeq + 1
         IN IF ~IceGuard(m)
            THEN /\ lastEv' = Ev("ice_candidate", "-", "-", "dropped",
                                 Info(m), NoSent)
                 /\ scen' = ScenStep(scen, IF m.to_user = Me
                                           THEN "ice_dropped" ELSE "other")
                 /\ UNCHANGED <<pendingRemoteCandidates, engines, tasks,
                                candSeq, failures>>
            ELSE IF remoteDescriptionSet
            THEN \* nothing follows await addIceCandidate(cand): the run
                 \* is taken whole, a rejection ends it with an exception
                 /\ candSeq < CandCap
                 /\ candSeq' = c
                 /\ \E ok \in Outcomes(engines, peerConnection) :
                      /\ engines' =
                           IF ok
                           THEN ApplyCandidate(engines, peerConnection, c,
                                               "direct")
                           ELSE engines
                      /\ failures' = IF ok THEN failures ELSE failures + 1
                      /\ lastEv' = Ev("ice_candidate", "-", "addIceCandidate",
                                      IF ok THEN "applied" ELSE "throw",
                                      Info(m), NoSent)
                      /\ scen' = ScenStep(scen, IF ok THEN "ice" ELSE "fail")
                 /\ UNCHANGED <<pendingRemoteCandidates, tasks>>
            ELSE /\ candSeq < CandCap
                 /\ candSeq' = c
                 /\ pendingRemoteCandidates' =
                      Append(pendingRemoteCandidates, c)
                 /\ lastEv' = Ev("ice_candidate", "-", "-", "queued", Info(m),
                                 NoSent)
                 /\ scen' = ScenStep(scen, "ice")
                 /\ UNCHANGED <<engines, tasks, failures>>
    /\ UNCHANGED <<appVars, peerConnection, localStream, currentPeer,
                   isCaller, remoteDescriptionSet, streams>>

\* a body of endCall that does not forget the stream it stopped
EndCallKeepsStream ==
    /\ streams' = StopTracks(streams, localStream)
    /\ engines' = CloseEngine(engines, peerConnection)
    /\ tasks' = Abandon(tasks, peerConnection)
    /\ peerConnection' = 0
    /\ localStream' = localStream
    /\ isCaller' = FALSE
    /\ currentPeer' = NULL

\* the body of endCall
EndCallEffect ==
    /\ streams' = StopTracks(streams, localStream)
    /\ engines' = CloseEngine(engines, peerConnection)
    /\ tasks' = Abandon(tasks, peerConnection)
    /\ peerConnection' = 0
    /\ localStream' = 0
    /\ isCaller' = FALSE
    /\ currentPeer' = NULL

\* endCall from the End button
EndCall ==
    /\ EndCallEffect
    /\ lastEv' = Ev("endCall", "-", "-",
                    IF localStream # 0 \/ peerConnection # 0
                    THEN "released" ELSE "nothing", NoMsg, NoSent)
    /\ scen' = ScenStep(scen, "other")
    /\ UNCHANGED <<appVars, pendingRemoteCandidates, remoteDescriptionSet,
                   candSeq, failures>>

\* handleMessage, case "call_answer", with handleCallAnswer up to its
\* first await
RecvCallAnswer ==
    /\ Announced
    /\ \E m \in AnswerMsgs :
         IF ~m.accepted
         THEN /\ EndCallEffect
              /\ lastEv' = Ev("call_answer", "handleCallAnswer", "-",
                              "ended", Info(m), NoSent)
              /\ scen' = ScenStep(scen, IF Info(m).fromPeer
                                        THEN "answer_false" ELSE "other")
              /\ UNCHANGED <<remoteDescriptionSet, failures>>
         ELSE IF peerConnection = 0
         THEN \* TypeError: this.peerConnection is null
              /\ lastEv' = Ev("call_answer", "handleCallAnswer", "-",
                              "throw", Info(m), NoSent)
              /\ scen' = ScenStep(scen, "other")
              /\ UNCHANGED <<callVars, platformVars, tasks, failures>>
         ELSE /\ NTasks < MaxTasks
              /\ engines[peerConnection].remote < MaxRemote
              /\ \E ok \in Outcomes(engines, peerConnection) :
                   /\ engines' = IF ok
                                 THEN ApplyRemote(engines, peerConnection)
                                 ELSE engines
                   /\ Await(tasks,
                            Task("handleCallAnswer", "setRemoteDescription",
                                 "-", "-", peerConnection, ok, Frozen(<<>>),
                                 0))
              /\ lastEv' = Ev("call_answer", "handleCallAnswer", "-",
                              "await", Info(m), NoSent)
              /\ scen' = ScenStep(scen, IF Info(m).fromPeer
                                        THEN "answer_true" ELSE "other")
              /\ UNCHANGED <<callVars, streams>>
    /\ UNCHANGED <<appVars, pendingRemoteCandidates, candSeq>>

(* ------------------------------ UI actions ----------------------------- *)
\* room for one more startLocalStream; the exploration starts none after
\* the last platform failure it allows
CanStart ==
    /\ Len(streams) + Cardinality(Pending("getUserMedia")) < MaxStreams
    /\ NTasks < MaxTasks
    /\ failures < MaxFailures

\* initiateCall(type) with startLocalStream up to its first await
InitiateCall ==
    \E type \in CallTypes :
      LET peer == Find(onlineUsers.list)
      IN /\ IF ~onlineUsers.defined
            THEN \* TypeError: this.onlineUsers is undefined
                 /\ lastEv' = Ev("initiateCall", "initiateCall", type,
                                 "throw", NoMsg, NoSent)
                 /\ scen' = ScenStep(scen, "other")
                 /\ UNCHANGED <<currentPeer, isCaller, tasks, failures>>
            ELSE IF peer = UNDEF
            THEN /\ currentPeer' = UNDEF
                 /\ lastEv' = Ev("initiateCall", "initiateCall", type,
                                 "nobody", NoMsg, NoSent)
                 /\ scen' = ScenStep(scen, "other")
                 /\ UNCHANGED <<isCaller, tasks, failures>>
            ELSE /\ CanStart
                 /\ currentPeer' = peer
                 /\ isCaller' = TRUE
                 /\ \E ok \in MayFail :
                      Await(tasks,
                            Task("initiateCall", "getUserMedia", type, "-", 0,
                                 ok, Frozen(<<>>), 0))
                 /\ lastEv' = Ev("initiateCall", "initiateCall", type,
                                 "await", NoMsg, NoSent)
                 /\ scen' = ScenStep(scen, IF type = "video"
                                           THEN "initiate_video" ELSE "other")
         /\ UNCHANGED <<appVars, peerConnection, localStream,
                        pendingRemoteCandidates, remoteDescriptionSet,
                        platformVars, candSeq>>

\* the accept and reject buttons are in the incoming-call dialog, which
\* showIncomingCall shows and answerCall hides: they can be clicked while an
\* offer is pending (so if (!offer) return is never taken)
ModalVisible == pendingOffer.type = "call_offer"

\* answerCall(accepted) with startLocalStream up to its first await
AnswerCall ==
    \E accepted \in BOOLEAN :
      LET offer == pendingOffer
          how == IF accepted THEN "accept" ELSE "reject"
      IN /\ ModalVisible
         /\ pendingOffer' = NoOffer(NULL)
         /\ IF ~accepted
            THEN /\ lastEv' = Ev("answerCall", "answerCall", how, "sent",
                                 NoMsg,
                                 AnswerMessage(offer.from_user, FALSE))
                 /\ scen' = ScenStep(scen, "other")
                 /\ UNCHANGED <<currentPeer, isCaller, tasks, failures>>
            ELSE /\ CanStart
                 /\ currentPeer' = offer.from_user
                 /\ isCaller' = FALSE
                 /\ \E ok \in MayFail :
                      Await(tasks,
                            Task("answerCall", "getUserMedia",
                                 offer.call_type, offer.from_user, 0, ok,
                                 Frozen(<<>>), 0))
                 /\ lastEv' = Ev("answerCall", "answerCall", how, "await",
                                 NoMsg, NoSent)
                 /\ scen' = ScenStep(scen, "accept")
         /\ UNCHANGED <<currentUsername, isConnected, onlineUsers,
                        peerConnection, localStream, pendingRemoteCandidates,
                        remoteDescriptionSet, platformVars, candSeq>>

(* ---------------------------- continuations --------------------------- *)
NewEngine == [closed |-> 0, remote |-> 0, log |-> <<>>]
NewStream == [stops |-> 0]

\* the handler of t ends with an exception (a rejected promise nobody handles)
Throw(t, at, snd) ==
    /\ tasks' = Without(t)
    /\ failures' = failures
    /\ lastEv' = Ev("resume", t.fn, at, "throw", NoMsg, snd)
    /\ scen' = ScenStep(scen, "fail")

\* the handler of t is suspended again as task u
Suspend(T, t, u, at, snd) ==
    /\ Await(T, u)
    /\ lastEv' = Ev("resume", t.fn, at, "await", NoMsg, snd)
    /\ scen' = ScenStep(scen, "resume_ok")

\* the handler of t returns
Finish(T, t, at, label, snd) ==
    /\ tasks' = T
    /\ failures' = failures
    /\ lastEv' = Ev("resume", t.fn, at, "done", NoMsg, snd)
    /\ scen' = ScenStep(scen, label)

\* this.pendingRemoteCandidates = [] leaves the old array to the loops
\* that are still iterating it
Detach(T) ==
    LET old(x) == IF x.arr.live
                  THEN [x EXCEPT !.arr = Frozen(pendingRemoteCandidates)]
                  ELSE x
    IN BagOfAll(old, T)

\* startLocalStream returned: initiateCall is done, answerCall goes on with
\* setRemoteDescription(offer.sdp).  pcv and engs are this.peerConnection and
\* the engines as the step has left them so far.
ReturnFromStart(t, at, pcv, engs, label, snd) ==
    IF t.fn = "initiateCall"
    THEN /\ engines' = engs
         /\ Finish(Without(t), t, at, label, snd)
    ELSE IF pcv = 0
    THEN /\ engines' = engs
         /\ Throw(t, at, snd)
    ELSE \E ok \in Outcomes(engs, pcv) :
           /\ engines' = IF ok THEN ApplyRemote(engs, pcv) ELSE engs
           /\ Suspend(Without(t), t,
                      [t EXCEPT !.pc = "setRemoteDescription", !.eng = pcv,
                                !.ok = ok], at, snd)

\* startLocalStream after await getUserMedia
ResumeGetUserMedia ==
    \E t \in Pending("getUserMedia") :
      /\ IF t.ok
         THEN /\ streams' = Append(streams, NewStream)
              /\ localStream' = Len(streams) + 1
              /\ Suspend(Without(t), t, [t EXCEPT !.pc = "play"],
                         "getUserMedia", NoSent)
         ELSE /\ Throw(t, "getUserMedia", NoSent)
              /\ UNCHANGED <<streams, localStream>>
      /\ UNCHANGED <<appVars, peerConnection, currentPeer, isCaller,
                     pendingRemoteCandidates, remoteDescriptionSet, engines, candSeq>>

\* startLocalStream after await play(): createPeerConnection, addTrack,
\* createOffer when isCaller
ResumePlay ==
    \E t \in Pending("play") :
      LET e == Len(engines) + 1
          engs == Append(engines, NewEngine)
      IN /\ peerConnection' = e
         /\ IF localStream = 0
            THEN \* TypeError: this.localStream is null
                 /\ engines' = engs
                 /\ Throw(t, "play", NoSent)
            ELSE IF isCaller
            THEN /\ engines' = engs
                 /\ \E ok \in OwnOutcomes(engs, e) :
                      Suspend(Without(t), t,
                              [t EXCEPT !.pc = "createOffer", !.eng = e,
                                        !.ok = ok], "play", NoSent)
            ELSE ReturnFromStart(t, "play", e, engs, "resume_ok", NoSent)
         /\ UNCHANGED <<appVars, localStream, currentPeer, isCaller,
                        pendingRemoteCandidates, remoteDescriptionSet,
                        streams, candSeq>>

\* startLocalStream after await createOffer(): setLocalDescription(offer)
ResumeCreateOffer ==
    \E t \in Pending("createOffer") :
      /\ IF ~t.ok \/ peerConnection = 0
         THEN Throw(t, "createOffer", NoSent)
         ELSE \E ok \in OwnOutcomes(engines, peerConnection) :
                Suspend(Without(t), t,
                        [t EXCEPT !.pc = "setLocalDescription",
                                  !.eng = peerConnection, !.ok = ok],
                        "createOffer", NoSent)
      /\ UNCHANGED <<appVars, callVars, platformVars, candSeq>>

\* startLocalStream after await setLocalDescription(offer): send call_offer
ResumeSetLocalOffer ==
    \E t \in Pending("setLocalDescription") :
      /\ IF ~t.ok
         THEN /\ Throw(t, "setLocalDescription", NoSent)
              /\ UNCHANGED <<engines>>
         ELSE ReturnFromStart(t, "setLocalDescription", peerConnection,
                              engines, "offer_sent", OfferMessage(t.type))
      /\ UNCHANGED <<appVars, callVars, streams, candSeq>>

\* for (const c of this.pendingRemoteCandidates) await addIceCandidate(c);
\* this.pendingRemoteCandidates = []; and what follows the loop.
\* The loop of t stands before element idx + 1 of its array arr.
FlushStep(t, at, arr, idx) ==
    LET items == IF arr.live THEN pendingRemoteCandidates ELSE arr.items
    IN IF idx < Len(items)
       THEN /\ UNCHANGED pendingRemoteCandidates
            /\ IF peerConnection = 0
               THEN /\ Throw(t, at, NoSent)
                    /\ UNCHANGED engines
               ELSE \E ok \in Outcomes(engines, peerConnection) :
                      /\ engines' =
                           IF ok
                           THEN ApplyCandidate(engines, peerConnection,
                                               items[idx + 1], "flush")
                           ELSE engines
                      /\ Suspend(Without(t), t,
                                 [t EXCEPT !.pc = "addIceCandidate",
                                           !.eng = peerConnection, !.ok = ok,
                                           !.arr = arr, !.idx = idx + 1], at, NoSent)
       ELSE /\ pendingRemoteCandidates' = <<>>
            /\ UNCHANGED engines
            /\ IF t.fn = "handleCallAnswer"
               THEN Finish(Detach(Without(t)), t, at, "answer_done", NoSent)
               ELSE IF peerConnection = 0
               THEN /\ tasks' = Detach(Without(t))
                    /\ failures' = failures
                    /\ lastEv' = Ev("resume", t.fn, at, "throw", NoMsg,
                                    NoSent)
                    /\ scen' = ScenStep(scen, "fail")
               ELSE \E ok \in OwnOutcomes(engines, peerConnection) :
                      Suspend(Detach(Without(t)), t,
                              [t EXCEPT !.pc = "createAnswer",
                                        !.eng = peerConnection, !.ok = ok,
                                        !.arr = Frozen(<<>>), !.idx = 0], at, NoSent)

\* answerCall / handleCallAnswer after await setRemoteDescription
ResumeSetRemote ==
    \E t \in Pending("setRemoteDescription") :
      /\ IF ~t.ok
         THEN /\ Throw(t, "setRemoteDescription", NoSent)
              /\ UNCHANGED <<remoteDescriptionSet, pendingRemoteCandidates,
                             engines>>
         ELSE /\ remoteDescriptionSet' = TRUE
              /\ FlushStep(t, "setRemoteDescription", Live, 0)
      /\ UNCHANGED <<appVars, peerConnection, localStream, currentPeer,
                     isCaller, streams, candSeq>>

\* answerCall / handleCallAnswer after await addIceCandidate(c) of the loop
ResumeFlushAdd ==
    \E t \in Pending("addIceCandidate") :
      /\ IF ~t.ok
         THEN /\ Throw(t, "addIceCandidate", NoSent)
              /\ UNCHANGED <<pendingRemoteCandidates, engines>>
         ELSE FlushStep(t, "addIceCandidate", t.arr, t.idx)
      /\ UNCHANGED <<appVars, peerConnection, localStream, currentPeer,
                     isCaller, remoteDescriptionSet, streams, candSeq>>

\* answerCall after await createAnswer(): setLocalDescription(answer)
ResumeCreateAnswer ==
    \E t \in Pending("createAnswer") :
      /\ IF ~t.ok \/ peerConnection = 0
         THEN Throw(t, "createAnswer", NoSent)
         ELSE \E ok \in OwnOutcomes(engines, peerConnection) :
                Suspend(Without(t), t,
                        [t EXCEPT !.pc = "setLocalAnswer",
                                  !.eng = peerConnection, !.ok = ok],
                        "createAnswer", NoSent)
      /\ UNCHANGED <<appVars, callVars, platformVars, candSeq>>

\* answerCall after await setLocalDescription(answer): send call_answer
ResumeSetLocalAnswer ==
    \E t \in Pending("setLocalAnswer") :
      /\ IF ~t.ok
         THEN Throw(t, "setLocalAnswer", NoSent)
         ELSE Finish(Without(t), t, "setLocalAnswer", "accept_done",
                     AnswerMessage(t.from, TRUE))
      /\ UNCHANGED <<appVars, callVars, platformVars, candSeq>>

(* ---------------------------- specification ---------------------------- *)
Next ==
    \/ JoinRoom
    \/ RecvPresence
    \/ RecvCallOffer
    \/ RecvCallAnswer
    \/ RecvIceCandidate
    \/ InitiateCall
    \/ AnswerCall
    \/ EndCall
    \/ ResumeGetUserMedia
    \/ ResumePlay
    \/ ResumeCreateOffer
    \/ ResumeSetLocalOffer
    \/ ResumeSetRemote
    \/ ResumeFlushAdd
    \/ ResumeCreateAnswer
    \/ ResumeSetLocalAnswer

Spec == Init /\ [][Next]_vars

TypeOK ==
    /\ peerConnection \in 0..Len(engines)
    /\ localStream \in 0..Len(streams)
    /\ isCaller \in BOOLEAN
    /\ remoteDescriptionSet \in BOOLEAN
    /\ currentPeer \in {Bob, Carol, NULL, UNDEF}
    /\ BagCardinality(tasks) <= MaxTasks

(* ------------------------------ properties ----------------------------- *)
\* a call session is active: a peer or a negotiation engine is set
SessionActive == currentPeer \notin {NULL, UNDEF} \/ peerConnection # 0

\* the step is a run of initiateCall(type) or of answerCall(true)
StartsCall ==
    \/ lastEv'.op = "initiateCall"
    \/ lastEv'.op = "answerCall" /\ lastEv'.at = "accept"

\* the candidates engine e accepted, and those it accepted from a flush
Applied(e) == [i \in 1..Len(engines[e].log) |-> engines[e].log[i].c]
Flushed(e) ==
    LET viaFlush(x) == x.via = "flush"
        log == SelectSeq(engines[e].log, viaFlush)
    IN [i \in 1..Len(log) |-> log[i].c]
Increasing(q) == \A i, j \in 1..Len(q) : i < j => q[i] < q[j]

\* C1: while a call session is active, a further initiateCall(type) or
\* answerCall(true) is rejected: it leaves the session's peer, role,
\* negotiation engine, local media, remoteDescriptionSet and candidate queue
\* as they were.
C1_SecondStartRejected ==
    [][SessionActive /\ StartsCall => UNCHANGED callVars]_vars

\* C2: the candidates queued before the remote description reach the engine
\* through the flush in the order they were queued, each once, and no
\* candidate reaches the engine twice (through two flushes, or through the
\* flush and directly).
C2_FlushInOrderOnce ==
    \A e \in 1..Len(engines) :
      /\ Increasing(Flushed(e))
      /\ \A i, j \in 1..Len(Applied(e)) :
           i # j => Applied(e)[i] # Applied(e)[j]

\* C3: every run of endCall ends in the Idle state (engine, stream and peer
\* null, isCaller false); an endCall right after an endCall changes nothing;
\* no stream is stopped twice and no engine is closed twice.
C3_EndCallIdempotent ==
    [][lastEv'.op = "endCall" \/ lastEv'.out = "ended" =>
        /\ peerConnection' = 0
        /\ localStream' = 0
        /\ currentPeer' = NULL
        /\ isCaller' = FALSE
        /\ \A s \in 1..Len(streams') : streams'[s].stops <= 1
        /\ \A e \in 1..Len(engines') : engines'[e].closed <= 1
        /\ lastEv'.again =>
             UNCHANGED <<callVars, platformVars, tasks, appVars>>]_vars

\* C3 witness: endCall ran twice in a row after a call that had acquired a
\* stream and created an engine, both released once.
C3_Witness ==
    /\ lastEv.op = "endCall"
    /\ lastEv.again
    /\ \E s \in 1..Len(streams) : streams[s].stops = 1
    /\ \E e \in 1..Len(engines) : engines[e].closed = 1

\* C4: a call_answer is sent only while isCaller is false; a call_offer is
\* sent only while isCaller is true and by a session initiateCall started.
C4_RoleInvariant ==
    /\ lastEv.snd.type = "call_answer" => ~isCaller
    /\ lastEv.snd.type = "call_offer" =>
         isCaller /\ lastEv.fn = "initiateCall"

\* C5 (Scenario A): the local user starts a video call; the call_offer that
\* is sent has call_type "video" and goes to the peer; once the call_answer
\* with accepted true has been handled the remote description is applied
\* once, remoteDescriptionSet is true, engine, stream and peer are still set,
\* the queue is empty and every candidate taken in has reached the engine
\* once.
C5_ScenarioA ==
    /\ scen = "A_offer" /\ lastEv.at = "setLocalDescription" =>
         /\ lastEv.snd = [type |-> "call_offer", from_user |-> Me,
                          to_user |-> Bob, call_type |-> "video",
                          accepted |-> TRUE]
         /\ currentPeer = Bob
         /\ isCaller
    /\ scen = "A_done" =>
         /\ remoteDescriptionSet
         /\ peerConnection # 0
         /\ localStream # 0
         /\ currentPeer = Bob
         /\ pendingRemoteCandidates = <<>>
         /\ \A e \in 1..Len(engines) :
              /\ e = peerConnection
              /\ engines[e].closed = 0
              /\ engines[e].remote = 1
              /\ Len(Applied(e)) = candSeq
              /\ \A c \in 1..candSeq : \E i \in 1..candSeq : Applied(e)[i] = c

\* C5 witness: Scenario A has run to its end with two candidates queued
\* while the answer was awaited, both flushed.
C5_Witness ==
    /\ scen = "A_done"
    /\ peerConnection # 0
    /\ Flushed(peerConnection) = <<1, 2>>

\* C6 (Scenario B): an ice_candidate that arrives while peerConnection is
\* null, or that is not addressed to the local user, is dropped: the queue,
\* the engines and every other part of the call state stay as they were and
\* the handler raises no error.
C6_IceDropped ==
    [][lastEv'.op = "ice_candidate" /\ (peerConnection = 0 \/ ~lastEv'.toMe) =>
        /\ lastEv'.out = "dropped"
        /\ UNCHANGED <<callVars, platformVars, tasks, appVars, candSeq,
                       failures>>]_vars

\* C6 witness: a candidate addressed to the local user, sent by the peer of
\* the call being set up, was dropped because no engine existed yet.
C6_Witness ==
    /\ lastEv.op = "ice_candidate"
    /\ lastEv.out = "dropped"
    /\ lastEv.toMe
    /\ lastEv.fromPeer
    /\ peerConnection = 0

\* C7 (Scenario C): the local user receives a call_offer, then two
\* ice_candidate messages addressed to it, then accepts; when answerCall has
\* finished both candidates have reached the engine and the queue is empty.
C7_ScenarioC ==
    scen = "C_done" =>
      /\ peerConnection # 0
      /\ Len(Applied(peerConnection)) = 2
      /\ pendingRemoteCandidates = <<>>

\* C8 (Scenario D): a call_answer with accepted false arrives from the peer
\* after the offer went out: the stream is stopped, the engine is closed,
\* peer, engine and stream are cleared, and no remote description was applied.
C8_ScenarioD ==
    scen = "D_done" =>
      /\ lastEv.out = "ended"
      /\ peerConnection = 0
      /\ localStream = 0
      /\ currentPeer = NULL
      /\ ~isCaller
      /\ ~remoteDescriptionSet
      /\ Len(streams) = 1 /\ streams[1].stops = 1
      /\ Len(engines) = 1 /\ engines[1].closed = 1 /\ engines[1].remote = 0
      /\ Pending("setRemoteDescription") = {}

\* C8 witness: Scenario D has run to its end.
C8_Witness ==
    /\ scen = "D_done"
    /\ lastEv.op = "call_answer"
    /\ lastEv.fromPeer
    /\ Len(engines) = 1

\* C9: a call_offer addressed to the local user is stored as the pending
\* offer when no session is active; a call_offer that arrives while a session
\* is active, or that is not addressed to the local user, is ignored: the
\* pending offer and the call state stay as they were and nothing is sent.
C9_OfferOnlyWhenIdle ==
    [][lastEv'.op = "call_offer" =>
        IF lastEv'.toMe /\ ~SessionActive
        THEN lastEv'.out = "stored" /\ pendingOffer'.type = "call_offer"
        ELSE /\ lastEv'.out = "ignored"
             /\ lastEv'.snd = NoSent
             /\ UNCHANGED <<pendingOffer, callVars, platformVars, tasks>>]_vars

\* C10: a call_answer that arrives while no session is active, or whose
\* sender is not currentPeer, is ignored: the call state stays as it was and
\* the handler raises no error.
C10_AnswerIgnored ==
    [][lastEv'.op = "call_answer" /\ (~SessionActive \/ ~lastEv'.fromPeer) =>
        /\ lastEv'.out # "throw"
        /\ UNCHANGED <<callVars, platformVars, tasks>>]_vars

\* the Idle state: no engine, no stream, no peer, not the caller
Idle ==
    /\ peerConnection = 0
    /\ localStream = 0
    /\ currentPeer = NULL
    /\ ~isCaller

\* the step is a run of endCall, from the End button or from handleCallAnswer
RunsEndCall == lastEv'.op = "endCall" \/ lastEv'.out = "ended"

\* C11: when getUserMedia fails in a call that initiateCall or
\* answerCall(true) started, the attempt is aborted: peer null, isCaller
\* false, no engine, no stream, and nothing is sent.
C11_MediaFailureIdle ==
    lastEv.op = "resume" /\ lastEv.at = "getUserMedia" /\ lastEv.out = "throw"
      => Idle /\ lastEv.snd = NoSent

\* C12: endCall can run in every state and raises no error: in Idle it
\* changes nothing of the call; in every other state, also while a call
\* setup is suspended at an await, the stream the application holds is
\* stopped, the engine it holds is closed and no handler is left waiting
\* for that engine, and neither is held afterwards.
C12_EndCallSafe ==
    [][RunsEndCall =>
        /\ lastEv'.out # "throw"
        /\ peerConnection' = 0
        /\ localStream' = 0
        /\ IF Idle
           THEN UNCHANGED <<callVars, platformVars, tasks>>
           ELSE /\ localStream # 0 => streams'[localStream].stops = 1
                /\ peerConnection # 0 =>
                     /\ engines'[peerConnection].closed = 1
                     /\ \A t \in BagToSet(tasks') : t.eng # peerConnection
                /\ \A s \in 1..Len(streams) :
                     s # localStream => streams'[s] = streams[s]
                /\ \A e \in 1..Len(engines) :
                     e # peerConnection => engines'[e] = engines[e]]_vars

\* C12 witness: endCall ran while startLocalStream was suspended at
\* play(): the stream it had acquired is stopped and the handler is still
\* suspended.
C12_Witness ==
    /\ lastEv.op = "endCall"
    /\ lastEv.out = "released"
    /\ Pending("play") # {}
    /\ localStream = 0
    /\ \E s \in 1..Len(streams) : streams[s].stops = 1

\* C13: a candidate for an engine that has no remote description yet is
\* queued, in every call, also in one that follows an earlier call: it is
\* not passed to the engine.
C13_QueuedUntilRemote ==
    [][/\ lastEv'.op = "ice_candidate"
       /\ lastEv'.toMe
       /\ peerConnection # 0
       /\ engines[peerConnection].remote = 0
       => /\ lastEv'.out = "queued"
          /\ UNCHANGED engines]_vars

\* C14: a run of endCall leaves the candidate queue empty,
\* remoteDescriptionSet false, no pending offer, no peer and isCaller false.
C14_TeardownResets ==
    [][RunsEndCall =>
        /\ pendingRemoteCandidates' = <<>>
        /\ ~remoteDescriptionSet'
        /\ pendingOffer'.type # "call_offer"
        /\ currentPeer' = NULL
        /\ ~isCaller']_vars

\* C15: in every state the candidate queue is empty when
\* remoteDescriptionSet is true.
C15_QueueOnlyBeforeRemote ==
    remoteDescriptionSet => pendingRemoteCandidates = <<>>

\* C16: the candidates an engine accepted in a session with one remote
\* description are in the order in which they arrived, also when one
\* arrived while answerCall or handleCallAnswer was suspended in the flush.
C16_ArrivalOrder ==
    \A e \in 1..Len(engines) :
      engines[e].remote <= 1 =>
        \A i, j \in 1..Len(Applied(e)) :
          i < j => Applied(e)[i] <= Applied(e)[j]

\* C17: no engine is given a remote description twice (and so no second
\* flush runs), whatever call_answer messages arrive.
C17_RemoteOnce ==
    \A e \in 1..Len(engines) : engines[e].remote <= 1

\* C18: when setRemoteDescription or addIceCandidate fails, in answerCall,
\* in handleCallAnswer or in the ice_candidate handler, the session is
\* ended: no engine, no stream, no peer, isCaller false.
C18_FailureEndsSession ==
    /\ lastEv.out = "throw"
    /\ lastEv.at \in {"setRemoteDescription", "addIceCandidate"}
    => Idle

\* C19: every stream that is not stopped is the one this.localStream holds
\* and every engine that is not closed is the one this.peerConnection
\* holds, so there is at most one of each and none is lost.
C19_NoLeak ==
    /\ \A s \in 1..Len(streams) : streams[s].stops = 0 => s = localStream
    /\ \A e \in 1..Len(engines) : engines[e].closed = 0 => e = peerConnection

\* C20: after endCall, and before initiateCall or answerCall(true) runs
\* again (currentPeer is null exactly then while a setup is suspended), a
\* resumed startLocalStream or answerCall acquires no stream, creates no
\* engine and sends nothing.
C20_EndCallCancels ==
    [][/\ currentPeer = NULL
       /\ lastEv'.op = "resume"
       /\ lastEv'.fn \in {"initiateCall", "answerCall"}
       => /\ localStream' = 0
          /\ peerConnection' = 0
          /\ lastEv'.snd = NoSent
          /\ UNCHANGED platformVars]_vars

=============================================================================
